---- MODULE Spec2Model ----
(***************************************************************************)
(* Model of WindowsSecurityServer (src/mcp-windows-python/src/server.py):  *)
(* the ledger of temporary firewall rules, the alert log, the monitor      *)
(* thread (threat matching, automated response, sweep of expired rules)    *)
(* and the request handlers that share that state with it.                 *)
(*                                                                         *)
(* Two threads run: the daemon thread of monitor_loop and the event-loop   *)
(* thread of the handlers.  A handler contains no suspension point, so one *)
(* handler runs at a time; the monitor thread interleaves with it at       *)
(* every blocking call (subprocess.run) and between the iterations of a    *)
(* loop over the shared dict.                                              *)
(*                                                                         *)
(* Time is counted in ticks, TicksPerSecond ticks to a second, so that     *)
(* int(time.time()) is a real truncation.                                  *)
(***************************************************************************)
EXTENDS Integers, Sequences, FiniteSets, TLC

\* ------------------------------------------------------------------ bounds
TicksPerSecond == 2
MaxSeconds == 60
MaxSubTicks == 1
MaxSkew == 1
MaxCalls == 2
MaxAlerts == 2

\* ------------------------------------------------------- program constants
SecondsPerMinute == 60
SleepNormal == 30
SleepOnError == 60
DefaultRuleTimeout == 3600
high_cpu_threshold == 90
high_memory_threshold == 85

Secs(n) == n * TicksPerSecond

\* int(time.time()): the whole seconds of a clock value
IntTime(t) == t \div TicksPerSecond

Min(a, b) == IF a < b THEN a ELSE b
Max(a, b) == IF a > b THEN a ELSE b

\* ---------------------------------------------------------------- strings
\* A string is a tuple of one-character strings.
UpperChars == <<"A", "B", "C", "D", "E", "F", "G", "H", "I", "J", "K", "L", "M",
                "N", "O", "P", "Q", "R", "S", "T", "U", "V", "W", "X", "Y", "Z">>
LowerChars == <<"a", "b", "c", "d", "e", "f", "g", "h", "i", "j", "k", "l", "m",
                "n", "o", "p", "q", "r", "s", "t", "u", "v", "w", "x", "y", "z">>

\* str.lower() on one character
LowerChar(c) ==
    IF \E i \in 1..Len(UpperChars) : UpperChars[i] = c
    THEN LowerChars[CHOOSE i \in 1..Len(UpperChars) : UpperChars[i] = c]
    ELSE c

\* str.lower()
Lower(s) == [i \in 1..Len(s) |-> LowerChar(s[i])]

\* the `in` operator on two strings: sub occurs in s
IsSubstring(sub, s) ==
    \E k \in 0..(Len(s) - Len(sub)) :
        \A i \in 1..Len(sub) : s[k + i] = sub[i]

RECURSIVE Join(_)
\* ' '.join(args)
Join(args) ==
    IF Len(args) = 0 THEN <<>>
    ELSE IF Len(args) = 1 THEN args[1]
    ELSE args[1] \o <<" ">> \o Join(Tail(args))

\* action.upper() on the values of the action enum
Upper(a) ==
    CASE a = "block" -> "BLOCK"
      [] a = "allow" -> "ALLOW"
      [] OTHER -> a

\* threat_patterns['suspicious_processes']
suspicious_processes == <<
    <<"p","o","w","e","r","s","h","e","l","l",".","e","x","e"," ","-","e","n","c">>,
    <<"c","m","d",".","e","x","e"," ","/","c"," ","w","h","o","a","m","i">>,
    <<"n","e","t","s","t","a","t"," ","-","a","n">>,
    <<"t","a","s","k","l","i","s","t"," ","/","s","v","c">>,
    <<"s","y","s","t","e","m","i","n","f","o">>,
    <<"w","m","i","c">> >>

\* ------------------------------------------------------------- rule names
NoName == [prefix |-> "", tag |-> "", pid |-> 0, ts |-> 0]

\* f"MCP_TEMP_{action.upper()}_{timestamp}"
TempName(action, timestamp) ==
    [prefix |-> "MCP_TEMP", tag |-> Upper(action), pid |-> 0, ts |-> timestamp]

\* f"MCP_BLOCK_{threat_info['pid']}_{int(time.time())}"
BlockName(pid, t) ==
    [prefix |-> "MCP_BLOCK", tag |-> "", pid |-> pid, ts |-> IntTime(t)]

\* ------------------------------------------------------------------ inputs
\* rule_name arguments a caller may pass; NoName stands for an omitted name
CustomNames == { [prefix |-> "r1", tag |-> "", pid |-> 0, ts |-> 0] }
Actions == {"block"}
Paths == {"/bin/x"}
\* Argument values as they arrive from JSON: a number, or a value that is
\* not one (a string, null).  No input schema of create_firewall_rule is
\* registered with list_tools, so nothing checks the type before the
\* handler runs.
Number(n) == [type |-> "number", value |-> n]
NotANumber == [type |-> "string", value |-> 0]
IsNumber(v) == v.type = "number"
\* duration_minutes arguments
NumericDurations == {Number(0), Number(1)}
Durations == NumericDurations \cup {NotANumber}
\* timeout_minutes arguments ("type": "number")
Timeouts == {0, 1}

NoAlert == [type |-> "", pid |-> 0, pattern |-> <<>>, cpu_percent |-> 0]

\* processes psutil.process_iter may report
ProcWmic == [pid |-> 1, name |-> "wmic.exe",
             cmdline |-> << <<"W","M","I","C">>,
                            <<"s","y","s","t","e","m","i","n","f","o">> >>,
             cpu_percent |-> 0, memory_percent |-> 0]
ProcBusy == [pid |-> 2, name |-> "busy.exe",
             cmdline |-> << <<"b","u","s","y">> >>,
             cpu_percent |-> 95, memory_percent |-> 0]
ProcSamples == { <<>>, <<ProcWmic>>, <<ProcBusy>> }

\* outcomes of subprocess.run(cmd): exit code 0, another exit code, raised
Outcomes == {"ok", "fail", "exc"}

VARIABLES
    now,                    \* time.time(), in ticks
    active_firewall_rules,  \* the ledger: a dict, kept in insertion order
    security_alerts,        \* the alert log
    auto_response_enabled,
    rule_timeout_seconds,
    fw,                     \* names of the rules present in the real firewall
    \* event-loop thread: position and locals of the running handler
    h_pc, h_rule_name, h_program_path, h_action, h_duration,
    h_time, h_it_used, h_it_pos, h_rows,
    calls,                  \* number of requests received
    \* monitor thread: position and locals
    m_pc, m_procs, m_pat, m_rule_name, m_program_path, m_threat,
    current_time, expired_rules, m_it_used, m_it_pos,
    wake_at, sleep_secs,
    recorded_enabled,       \* auto_response_enabled when m_threat was appended
    \* trace of the firewall commands and of the calls of proc.exe()
    last_cmd,               \* the command that returned in the last step
    resp,                   \* the payload a handler returned in the last step
    del_attempts,           \* delete commands issued so far by the sweep
    failed_dels,            \* rules whose last delete command failed
    \* the json-rpc-demo server: the body posted to /rpc and the response
    rpc_request, rpc_response

hvars == <<h_pc, h_rule_name, h_program_path, h_action, h_duration,
           h_time, h_it_used, h_it_pos, h_rows, calls>>
mvars == <<m_pc, m_procs, m_pat, m_rule_name, m_program_path, m_threat,
           current_time, expired_rules, m_it_used, m_it_pos,
           wake_at, sleep_secs, del_attempts, recorded_enabled>>
shared == <<active_firewall_rules, security_alerts, auto_response_enabled,
            rule_timeout_seconds, fw>>
rpcvars == <<rpc_request, rpc_response>>
vars == <<now, shared, hvars, mvars, last_cmd, resp, failed_dels, rpcvars>>

\* ------------------------------------------------------- dict operations
Names(d) == { d[i].name : i \in 1..Len(d) }
Has(d, n) == n \in Names(d)
IndexOf(d, n) == CHOOSE i \in 1..Len(d) : d[i].name = n
Get(d, n) == d[IndexOf(d, n)]

\* d[n] = e : an existing key keeps its place, a new key goes last
SetItem(d, e) ==
    IF Has(d, e.name) THEN [d EXCEPT ![IndexOf(d, e.name)] = e]
    ELSE Append(d, e)

\* variant: the entry stays in the dict
DelItem_KeepsItem(d, n) == d

\* del d[n]
DelItem(d, n) == SelectSeq(d, LAMBDA e : e.name # n)

NoResp == [kind |-> "none", success |-> "absent", error |-> FALSE,
           rule_name |-> NoName, expires_at |-> 0,
           count |-> 0, rules |-> <<>>,
           enabled |-> FALSE, timeout_minutes |-> 0]

\* no body has been posted to /rpc, no response has been sent
NoRequest == [kind |-> "none"]
NoResponse == [status |-> 0]

NoCmd == [op |-> "", name |-> NoName, rc |-> "", by |-> "", inserted |-> FALSE]

\* ------------------------------------------------------- threat matching
NPat == Len(suspicious_processes)

\* variant: the pattern is looked for as it is written
Matches_CaseSensitive(pattern, cmdline) == IsSubstring(pattern, cmdline)
\* pattern.lower() in cmdline.lower()
Matches(pattern, cmdline) == IsSubstring(Lower(pattern), Lower(cmdline))

SuspiciousAlert(p, k) ==
    [type |-> "suspicious_process", pid |-> p.pid,
     pattern |-> suspicious_processes[k], cpu_percent |-> 0]

HighCpuAlert(p) ==
    [type |-> "high_cpu_usage", pid |-> p.pid,
     pattern |-> <<>>, cpu_percent |-> p.cpu_percent]

\* proc_info['cpu_percent'] and proc_info['cpu_percent'] > threshold
HighCpu(p) == p.cpu_percent # 0 /\ p.cpu_percent > high_cpu_threshold

\* the processes that occur in ProcSamples
ProcPool == UNION { { ps[i] : i \in 1..Len(ps) } : ps \in ProcSamples }

\* Processes with which the matching is exercised: the argv of each, its
\* cpu_percent and its memory_percent.
MatchPool == {
    \* "PowerShell.exe -enc AAA": the first pattern, in other case
    [pid |-> 11, name |-> "powershell.exe",
     cmdline |-> << <<"P","o","w","e","r","S","h","e","l","l",".","e","x","e">>,
                    <<"-","e","n","c">>, <<"A","A","A">> >>,
     cpu_percent |-> 0, memory_percent |-> 0],
    \* "netstat  -an": two spaces where the pattern has one
    [pid |-> 12, name |-> "netstat.exe",
     cmdline |-> << <<"n","e","t","s","t","a","t">>, <<>>, <<"-","a","n">> >>,
     cpu_percent |-> 90, memory_percent |-> 85],
    \* "x tasklist /SVC wmic": two patterns inside a longer line, and busy
    [pid |-> 13, name |-> "x.exe",
     cmdline |-> << <<"x">>, <<"t","a","s","k","l","i","s","t">>,
                    <<"/","S","V","C">>, <<"w","m","i","c">> >>,
     cpu_percent |-> 91, memory_percent |-> 0],
    \* no command line (cmdline is None or empty), memory above the threshold
    [pid |-> 14, name |-> "system", cmdline |-> <<>>,
     cpu_percent |-> 0, memory_percent |-> 86],
    \* "wmi": a proper prefix of a pattern
    [pid |-> 15, name |-> "wmi.exe", cmdline |-> << <<"w","m","i">> >>,
     cpu_percent |-> 0, memory_percent |-> 0] }

\* for each process, the numbers of the patterns that match its command line
MatchTable ==
    [p \in ProcPool \cup MatchPool |->
        { k \in 1..NPat : Matches(suspicious_processes[k], Join(p.cmdline)) }]

RECURSIVE NextEvent(_, _)
\* The loops of _monitor_threats, run from process Head(procs) and pattern
\* number pat up to the next call of _handle_threat_detection: the alert
\* passed and the position the loops resume from (NoAlert: loops finished).
NextEvent(procs, pat) ==
    IF procs = <<>>
    THEN [procs |-> <<>>, pat |-> 1, alert |-> NoAlert]
    ELSE LET p == Head(procs)
             ms == { k \in MatchTable[p] : k >= pat }
         IN IF ms # {}
            THEN LET k == CHOOSE x \in ms : \A y \in ms : x <= y
                 IN [procs |-> procs, pat |-> k + 1,
                     alert |-> SuspiciousAlert(p, k)]
            ELSE IF pat <= NPat + 1 /\ HighCpu(p)
            THEN [procs |-> procs, pat |-> NPat + 2, alert |-> HighCpuAlert(p)]
            ELSE NextEvent(Tail(procs), 1)

\* variant: the log keeps the alerts of the current cycle only
AppendAlert_DropsEarlier(log, threat_info) == <<threat_info>>
\* self.security_alerts.append(threat_info)
AppendAlert(log, threat_info) == Append(log, threat_info)

\* variant: _monitor_threats returns when the first alert has been handled
LoopsFinished_Early(procs, pat) == TRUE
\* the loops of _monitor_threats have no check left that raises an alert
LoopsFinished(procs, pat) == NextEvent(procs, pat).alert = NoAlert

RECURSIVE AlertCount(_, _)
\* number of alerts one pass over procs produces
AlertCount(procs, pat) ==
    LET ev == NextEvent(procs, pat)
    IN IF ev.alert = NoAlert THEN 0 ELSE 1 + AlertCount(ev.procs, ev.pat)

Init ==
    /\ now = 0
    /\ active_firewall_rules = <<>>
    /\ security_alerts = <<>>
    /\ auto_response_enabled = TRUE
    /\ rule_timeout_seconds = DefaultRuleTimeout
    /\ fw = {}
    /\ h_pc = "idle"
    /\ h_rule_name = NoName
    /\ h_program_path = ""
    /\ h_action = ""
    /\ h_duration = Number(0)
    /\ h_time = 0
    /\ h_it_used = 0
    /\ h_it_pos = 0
    /\ h_rows = <<>>
    /\ resp = NoResp
    /\ calls = 0
    /\ m_pc = "idle"
    /\ m_procs = <<>>
    /\ m_pat = 1
    /\ m_rule_name = NoName
    /\ m_program_path = ""
    /\ m_threat = NoAlert
    /\ current_time = 0
    /\ expired_rules = <<>>
    /\ m_it_used = 0
    /\ m_it_pos = 0
    /\ wake_at = 0
    /\ sleep_secs = 0
    /\ last_cmd = NoCmd
    /\ del_attempts = <<>>
    /\ recorded_enabled = TRUE
    /\ failed_dels = {}
    /\ rpc_request = NoRequest
    /\ rpc_response = NoResponse

\* ------------------------------------------------------------------- clock
Minute == Secs(SecondsPerMinute)

\* The clock may advance by d ticks: at most MaxSubTicks single ticks are
\* taken after a whole number of minutes.
CanAdvance(d) == d = 0 \/ (now % Minute) + d <= MaxSubTicks

\* Time passes: a tick, or a minute.
Tick ==
    /\ \/ CanAdvance(1) /\ now' = now + 1
       \/ IntTime(now + Minute) <= MaxSeconds /\ now' = now + Minute
    /\ last_cmd' = NoCmd
    /\ resp' = NoResp
    /\ UNCHANGED <<rpcvars, failed_dels, shared, mvars, calls, h_pc, h_rule_name, h_program_path,
                   h_action, h_duration, h_time, h_it_used, h_it_pos, h_rows>>

\* locals of a handler that has returned
HandlerReturns ==
    /\ h_pc' = "idle"
    /\ h_rule_name' = NoName
    /\ h_program_path' = ""
    /\ h_action' = ""
    /\ h_duration' = Number(0)
    /\ h_time' = 0
    /\ h_it_used' = 0
    /\ h_it_pos' = 0
    /\ h_rows' = <<>>

\* --------------------------------------------------- create_firewall_rule
\* create_firewall_rule_tool up to the call of subprocess.run
CreateBegin(program_path, action, duration_minutes, custom_name) ==
    /\ h_pc = "idle"
    /\ calls < MaxCalls
    /\ calls' = calls + 1
    /\ h_rule_name' = IF custom_name # NoName THEN custom_name
                      ELSE TempName(action, IntTime(now))
    /\ h_program_path' = program_path
    /\ h_action' = action
    /\ h_duration' = duration_minutes
    /\ h_pc' = "create_cmd"
    /\ resp' = NoResp
    /\ last_cmd' = NoCmd
    /\ UNCHANGED <<rpcvars, failed_dels, now, shared, mvars, h_time, h_it_used, h_it_pos, h_rows>>

\* _create_firewall_rule: subprocess.run returns rc
CreateResult(rc) == rc = "ok"

\* variant: duration_minutes taken for seconds
ManualEntry_NoMinutes(rule_name, program_path, action, duration_minutes, t1, t2) ==
    [name |-> rule_name,
     created_at |-> t2,
     expires_at |-> t1 + Secs(duration_minutes),
     program_path |-> program_path,
     action |-> action,
     threat_info |-> NoAlert]

\* the entry create_firewall_rule_tool stores: the clock reads t1 when
\* expires_at is computed and t2 when created_at is
ManualEntry(rule_name, program_path, action, duration_minutes, t1, t2) ==
    [name |-> rule_name,
     created_at |-> t2,
     expires_at |-> t1 + Secs(duration_minutes * SecondsPerMinute),
     program_path |-> program_path,
     action |-> action,
     threat_info |-> NoAlert]

\* the entry _automated_response stores: the clock reads t1 for created_at
\* and t2 for expires_at
AutoEntry(rule_name, program_path, threat_info, timeout_seconds, t1, t2) ==
    [name |-> rule_name,
     created_at |-> t1,
     expires_at |-> t2 + Secs(timeout_seconds),
     program_path |-> program_path,
     action |-> "",
     threat_info |-> threat_info]

\* The command returns; create_firewall_rule_tool runs to its return.  The
\* clock is read twice, for expires_at and then for created_at, skew apart.
CreateEnd(rc, skew) ==
    /\ h_pc = "create_cmd"
    /\ CanAdvance(skew)
    /\ last_cmd' = [op |-> "add", name |-> h_rule_name, rc |-> rc,
                    by |-> "manual",
                    inserted |-> CreateResult(rc) /\ IsNumber(h_duration)]
    /\ fw' = IF rc = "ok" THEN fw \cup {h_rule_name} ELSE fw
    /\ IF CreateResult(rc) /\ IsNumber(h_duration)
       THEN LET entry == ManualEntry(h_rule_name, h_program_path, h_action,
                                     h_duration.value, now, now + skew)
            IN /\ active_firewall_rules' =
                     SetItem(active_firewall_rules, entry)
               /\ now' = now + skew
               /\ resp' = [NoResp EXCEPT !.kind = "create",
                                         !.success = "true",
                                         !.rule_name = h_rule_name,
                                         !.expires_at = entry.expires_at]
       ELSE IF CreateResult(rc)
       THEN \* time.time() + (duration_minutes * 60) raises TypeError, which
            \* the handler catches: {"error": str(e)}
            /\ skew = 0
            /\ resp' = [NoResp EXCEPT !.kind = "create", !.error = TRUE]
            /\ UNCHANGED <<now, active_firewall_rules>>
       ELSE /\ skew = 0
            /\ resp' = [NoResp EXCEPT !.kind = "create",
                                      !.success = "false",
                                      !.error = TRUE]
            /\ UNCHANGED <<now, active_firewall_rules>>
    /\ HandlerReturns
    /\ UNCHANGED <<rpcvars, failed_dels, security_alerts, auto_response_enabled,
                   rule_timeout_seconds, mvars, calls>>

\* ---------------------------------------------------- manage_auto_response
\* has_enabled / has_timeout: the argument is present and not None
\* timeout_minutes is the number num / den (a JSON number need not be whole);
\* den divides 60, so that timeout_minutes * 60 is a whole number of seconds.
ManageAutoResponseOf(has_enabled, enabled, has_timeout, num, den) ==
    /\ h_pc = "idle"
    /\ calls < MaxCalls
    /\ calls' = calls + 1
    /\ auto_response_enabled' =
          IF has_enabled THEN enabled ELSE auto_response_enabled
    /\ rule_timeout_seconds' =
          IF has_timeout THEN (num * SecondsPerMinute) \div den
          ELSE rule_timeout_seconds
    /\ resp' = [NoResp EXCEPT !.kind = "manage",
                  !.enabled = auto_response_enabled',
                  !.timeout_minutes = rule_timeout_seconds' \div SecondsPerMinute]
    /\ last_cmd' = NoCmd
    /\ UNCHANGED <<rpcvars, failed_dels, now, active_firewall_rules, security_alerts, fw, mvars,
                   h_pc, h_rule_name, h_program_path, h_action, h_duration,
                   h_time, h_it_used, h_it_pos, h_rows>>

\* timeout_minutes is a whole number
ManageAutoResponse(has_enabled, enabled, has_timeout, timeout_minutes) ==
    ManageAutoResponseOf(has_enabled, enabled, has_timeout, timeout_minutes, 1)

\* ------------------------------------------------------ get_security_alerts
\* s[start:] of a Python list
SliceFrom(s, start) ==
    LET from == IF start < 0 THEN Max(0, Len(s) + start)
                ELSE Min(start, Len(s))
    IN SubSeq(s, from + 1, Len(s))

\* [alert for alert in s if alert.get('type') == alert_type]
OfType(s, alert_type) == SelectSeq(s, LAMBDA alert : alert.type = alert_type)

\* alert_type is None or '' when no filter is asked for
NoType == ""

\* the list bound to alerts (server.py 391-394)
SelectAlerts(log, limit, alert_type) ==
    IF alert_type = NoType
    THEN SliceFrom(log, -limit)
    ELSE SliceFrom(OfType(SliceFrom(log, -limit * 2), alert_type), -limit)

\* The handler has no await, and runs in one piece on the event loop; the
\* list it slices is the log of the moment.
GetSecurityAlerts(limit, alert_type) ==
    /\ h_pc = "idle"
    /\ calls < MaxCalls
    /\ calls' = calls + 1
    /\ LET alerts == SelectAlerts(security_alerts, limit, alert_type)
       IN resp' = [kind |-> "alerts",
                   total_alerts |-> Len(security_alerts),
                   returned_alerts |-> Len(alerts),
                   alerts |-> alerts,
                   alert_types |-> { security_alerts[i].type :
                                       i \in 1..Len(security_alerts) }]
    /\ last_cmd' = NoCmd
    /\ UNCHANGED <<rpcvars, failed_dels, now, shared, mvars,
                   h_pc, h_rule_name, h_program_path, h_action, h_duration,
                   h_time, h_it_used, h_it_pos, h_rows>>

\* ----------------------------------------------- get_active_firewall_rules
\* one row of active_rules
ListRow(rule_info, t) ==
    [rule_name |-> rule_info.name,
     program_path |-> rule_info.program_path,
     action |-> IF rule_info.action = "" THEN "block" ELSE rule_info.action,
     expires_at |-> rule_info.expires_at,
     remaining_seconds |-> Max(0, rule_info.expires_at - t)]

\* One call of next() on the iterator of the loop, with the loop body or
\* the return: used is the size of the dict when the iterator was made, pos
\* the number of entries passed, rows the list active_rules, t the value of
\* current_time.  A dict whose size has changed raises RuntimeError, which
\* the handler turns into an error payload.
ListNext(used, pos, rows, t) ==
    IF Len(active_firewall_rules) # used
    THEN /\ resp' = [NoResp EXCEPT !.kind = "list", !.error = TRUE]
         /\ HandlerReturns
    ELSE IF pos < Len(active_firewall_rules)
    THEN /\ h_rows' = Append(rows, ListRow(active_firewall_rules[pos + 1], t))
         /\ h_it_pos' = pos + 1
         /\ h_it_used' = used
         /\ h_time' = t
         /\ h_pc' = "list_iter"
         /\ resp' = NoResp
         /\ UNCHANGED <<h_rule_name, h_program_path, h_action, h_duration>>
    ELSE /\ resp' = [NoResp EXCEPT !.kind = "list",
                                   !.count = Len(rows),
                                   !.rules = rows]
         /\ HandlerReturns

\* get_active_firewall_rules_tool reads the clock, makes the iterator of
\* the dict and calls next() for the first time
ListBegin ==
    /\ h_pc = "idle"
    /\ calls < MaxCalls
    /\ calls' = calls + 1
    /\ ListNext(Len(active_firewall_rules), 0, <<>>, now)
    /\ last_cmd' = NoCmd
    /\ UNCHANGED <<rpcvars, failed_dels, now, shared, mvars>>

\* the loop of get_active_firewall_rules_tool goes on
ListStep ==
    /\ h_pc = "list_iter"
    /\ ListNext(h_it_used, h_it_pos, h_rows, h_time)
    /\ last_cmd' = NoCmd
    /\ UNCHANGED <<rpcvars, failed_dels, now, shared, mvars, calls>>

\* ------------------------------------------------------------ monitor loop
\* variant: the thread ends when a cycle has raised an error
Sleep_StopsOnError(secs) ==
    /\ m_pc' = IF secs = SleepOnError THEN "stopped" ELSE "sleep"
    /\ sleep_secs' = secs
    /\ wake_at' = now + Secs(secs)
    /\ m_procs' = <<>>
    /\ m_pat' = 1
    /\ m_rule_name' = NoName
    /\ m_program_path' = ""
    /\ m_threat' = NoAlert
    /\ current_time' = 0
    /\ expired_rules' = <<>>
    /\ m_it_used' = 0
    /\ m_it_pos' = 0
    /\ del_attempts' = <<>>
    /\ recorded_enabled' = TRUE

\* time.sleep(secs)
Sleep(secs) ==
    /\ m_pc' = "sleep"
    /\ sleep_secs' = secs
    /\ wake_at' = now + Secs(secs)
    /\ m_procs' = <<>>
    /\ m_pat' = 1
    /\ m_rule_name' = NoName
    /\ m_program_path' = ""
    /\ m_threat' = NoAlert
    /\ current_time' = 0
    /\ expired_rules' = <<>>
    /\ m_it_used' = 0
    /\ m_it_pos' = 0
    /\ del_attempts' = <<>>
    /\ recorded_enabled' = TRUE

\* variant: a cycle is started whenever the interval has passed, whether or
\* not the previous cycle has returned
CycleStartWhen_Overlapping(woken, procs) ==
    /\ m_pc # "idle" => woken
    /\ Len(security_alerts) + AlertCount(procs, 1) <= MaxAlerts
    /\ m_pc' = "threats"
    /\ m_procs' = procs
    /\ m_pat' = 1
    /\ wake_at' = 0
    /\ sleep_secs' = 0
    /\ resp' = NoResp
    /\ last_cmd' = NoCmd
    /\ UNCHANGED <<rpcvars, failed_dels, now, shared, hvars, m_rule_name, m_program_path, m_threat,
                   current_time, expired_rules, m_it_used, m_it_pos,
                   del_attempts, recorded_enabled>>

\* monitor_loop starts a cycle, the thread having started or time.sleep
\* having returned (woken): psutil.process_iter reports procs
CycleStartWhen(woken, procs) ==
    /\ \/ m_pc = "idle"
       \/ m_pc = "sleep" /\ woken
    /\ Len(security_alerts) + AlertCount(procs, 1) <= MaxAlerts
    /\ m_pc' = "threats"
    /\ m_procs' = procs
    /\ m_pat' = 1
    /\ wake_at' = 0
    /\ sleep_secs' = 0
    /\ resp' = NoResp
    /\ last_cmd' = NoCmd
    /\ UNCHANGED <<rpcvars, failed_dels, now, shared, hvars, m_rule_name, m_program_path, m_threat,
                   current_time, expired_rules, m_it_used, m_it_pos,
                   del_attempts, recorded_enabled>>

\* A cycle starts and the sampling raises an exception that is not one of
\* psutil.NoSuchProcess and psutil.AccessDenied: the except clause of
\* _monitor_threats logs it and _monitor_threats returns to monitor_loop.
SampleFails ==
    /\ \/ m_pc = "idle"
       \/ m_pc = "sleep" /\ now >= wake_at
    /\ m_pc' = "threats"
    /\ m_procs' = <<>>
    /\ m_pat' = 1
    /\ wake_at' = 0
    /\ sleep_secs' = 0
    /\ resp' = NoResp
    /\ last_cmd' = [op |-> "sample", name |-> NoName, rc |-> "exc",
                    by |-> "monitor", inserted |-> FALSE]
    /\ UNCHANGED <<rpcvars, failed_dels, now, shared, hvars, m_rule_name, m_program_path, m_threat,
                   current_time, expired_rules, m_it_used, m_it_pos,
                   del_attempts, recorded_enabled>>

\* a cycle starts once the clock has reached the end of the sleep
CycleStart(procs) == CycleStartWhen(now >= wake_at, procs)

\* The last minute the model counts stands for all later time: there the
\* sleep returns although the clock cannot be advanced.
AtHorizon == IntTime(now + Minute) > MaxSeconds
HorizonCycleStart(procs) ==
    /\ AtHorizon
    /\ now < wake_at
    /\ CycleStartWhen(TRUE, procs)

\* _monitor_threats reaches a detection; _handle_threat_detection appends
\* the alert and logs it (logger.warning writes to the log stream, where the
\* other thread may run).
Detect ==
    /\ m_pc = "threats"
    /\ LET ev == NextEvent(m_procs, m_pat)
       IN /\ ev.alert # NoAlert
          /\ security_alerts' = AppendAlert(security_alerts, ev.alert)
          /\ m_procs' = ev.procs
          /\ m_pat' = ev.pat
          /\ m_threat' = ev.alert
    /\ m_pc' = "handle"
    /\ recorded_enabled' = auto_response_enabled
    /\ resp' = NoResp
    /\ last_cmd' = NoCmd
    /\ UNCHANGED <<rpcvars, failed_dels, now, active_firewall_rules, auto_response_enabled,
                   rule_timeout_seconds, fw, hvars, m_rule_name, m_program_path,
                   current_time, expired_rules, m_it_used, m_it_pos,
                   wake_at, sleep_secs, del_attempts>>

\* variant: a rule is requested although no path was found
ShouldBlock_WithoutPath(enabled, threat_info, has_path) ==
    enabled /\ threat_info.type = "suspicious_process"

\* variant: a rule is requested for an alert of any type
ShouldBlock_AnyAlert(enabled, threat_info, has_path) ==
    enabled /\ has_path

\* the conditions under which _automated_response calls
\* _create_firewall_rule: auto_response_enabled, the alert type, program_path
ShouldBlock(enabled, threat_info, has_path) ==
    enabled /\ threat_info.type = "suspicious_process" /\ has_path

\* _handle_threat_detection reads auto_response_enabled; if it is set,
\* _automated_response runs up to its call of subprocess.run, or to its
\* return when it issues no command.  has_path: _get_process_path returned
\* a path (it is asked only for a suspicious_process alert).
Respond(has_path) ==
    /\ m_pc = "handle"
    /\ IF ShouldBlock(auto_response_enabled, m_threat, has_path)
       THEN /\ m_pc' = "auto_cmd"
            /\ m_rule_name' = BlockName(m_threat.pid, now)
            /\ m_program_path' = "/proc/exe"
            /\ UNCHANGED <<m_threat, recorded_enabled>>
       ELSE /\ ~has_path
            /\ m_pc' = "threats"
            /\ m_threat' = NoAlert
            /\ recorded_enabled' = TRUE
            /\ UNCHANGED <<m_rule_name, m_program_path>>
    /\ resp' = NoResp
    /\ last_cmd' =
          IF auto_response_enabled /\ m_threat.type = "suspicious_process"
          THEN [op |-> "exe", name |-> NoName,
                rc |-> IF has_path THEN "ok" ELSE "fail",
                by |-> "auto", inserted |-> FALSE]
          ELSE NoCmd
    /\ UNCHANGED <<rpcvars, failed_dels, now, shared, hvars, m_procs, m_pat,
                   current_time, expired_rules, m_it_used, m_it_pos,
                   wake_at, sleep_secs, del_attempts>>

\* The command returns; _automated_response runs to its return.  The clock
\* is read twice, for created_at and then for expires_at, skew apart.
AutoCmdEnd(rc, skew) ==
    /\ m_pc = "auto_cmd"
    /\ CanAdvance(skew)
    /\ resp' = NoResp
    /\ last_cmd' = [op |-> "add", name |-> m_rule_name, rc |-> rc,
                    by |-> "auto", inserted |-> CreateResult(rc)]
    /\ fw' = IF rc = "ok" THEN fw \cup {m_rule_name} ELSE fw
    /\ IF CreateResult(rc)
       THEN /\ active_firewall_rules' = SetItem(active_firewall_rules,
                  AutoEntry(m_rule_name, m_program_path, m_threat,
                            rule_timeout_seconds, now, now + skew))
            /\ now' = now + skew
       ELSE /\ skew = 0
            /\ UNCHANGED <<now, active_firewall_rules>>
    /\ m_pc' = "threats"
    /\ m_rule_name' = NoName
    /\ m_program_path' = ""
    /\ m_threat' = NoAlert
    /\ recorded_enabled' = TRUE
    /\ UNCHANGED <<rpcvars, failed_dels, security_alerts, auto_response_enabled,
                   rule_timeout_seconds, hvars, m_procs, m_pat,
                   current_time, expired_rules, m_it_used, m_it_pos,
                   wake_at, sleep_secs, del_attempts>>

\* variant: a rule counts as expired only at the instant of its expiry
IsExpired_OnlyAtExpiry(t, rule_info) == t = rule_info.expires_at

\* current_time >= rule_info['expires_at']
IsExpired(t, rule_info) == t >= rule_info.expires_at

\* One call of next() on the iterator of the first loop of
\* _cleanup_expired_firewall_rules, with the loop body: used is the size of
\* the dict when the iterator was made, pos the number of entries passed,
\* expired the list expired_rules, t the value of current_time.  A dict
\* whose size has changed raises RuntimeError, which leaves the sweep and is
\* caught by monitor_loop.  When the iterator is exhausted the second loop
\* starts: the first delete command is issued, or the cycle ends.
ScanNext(used, pos, expired, t) ==
    IF Len(active_firewall_rules) # used
    THEN Sleep(SleepOnError)
    ELSE IF pos < Len(active_firewall_rules)
    THEN LET rule_info == active_firewall_rules[pos + 1]
         IN /\ expired_rules' = IF IsExpired(t, rule_info)
                                THEN Append(expired, rule_info.name)
                                ELSE expired
            /\ m_it_pos' = pos + 1
            /\ m_it_used' = used
            /\ current_time' = t
            /\ m_pc' = "scan"
            /\ m_procs' = <<>>
            /\ m_pat' = 1
            /\ UNCHANGED <<m_rule_name, m_program_path, m_threat,
                           wake_at, sleep_secs, del_attempts,
                           recorded_enabled>>
    ELSE IF expired = <<>>
    THEN Sleep(SleepNormal)
    ELSE /\ m_pc' = "del_cmd"
         /\ del_attempts' = Append(del_attempts, Head(expired))
         /\ UNCHANGED <<m_procs, m_pat, m_rule_name, m_program_path,
                        m_threat, current_time, expired_rules,
                        m_it_used, m_it_pos, wake_at, sleep_secs,
                        recorded_enabled>>

\* _monitor_threats has returned; _cleanup_expired_firewall_rules reads the
\* clock, makes the iterator of the dict and calls next() for the first time
SweepBegin ==
    /\ m_pc = "threats"
    /\ LoopsFinished(m_procs, m_pat)
    /\ ScanNext(Len(active_firewall_rules), 0, <<>>, now)
    /\ resp' = NoResp
    /\ last_cmd' = NoCmd
    /\ UNCHANGED <<rpcvars, failed_dels, now, shared, hvars>>

\* the first loop of _cleanup_expired_firewall_rules goes on
SweepScan ==
    /\ m_pc = "scan"
    /\ ScanNext(m_it_used, m_it_pos, expired_rules, current_time)
    /\ resp' = NoResp
    /\ last_cmd' = NoCmd
    /\ UNCHANGED <<rpcvars, failed_dels, now, shared, hvars>>

\* The delete command for Head(expired_rules) returns; the loop goes on to
\* the next delete command, or the cycle ends.
SweepDelEnd(rc) ==
    /\ m_pc = "del_cmd"
    /\ LET rule_name == Head(expired_rules)
           rest == Tail(expired_rules)
       IN /\ resp' = NoResp
          /\ last_cmd' = [op |-> "delete", name |-> rule_name, rc |-> rc,
                          by |-> "sweep", inserted |-> FALSE]
          /\ fw' = IF rc = "ok" THEN fw \ {rule_name} ELSE fw
          /\ failed_dels' = IF rc = "ok" THEN failed_dels \ {rule_name}
                            ELSE failed_dels \cup {rule_name}
          /\ active_firewall_rules' =
                IF rc = "ok" THEN DelItem(active_firewall_rules, rule_name)
                ELSE active_firewall_rules
          /\ IF rest = <<>>
             THEN Sleep(SleepNormal)
             ELSE /\ expired_rules' = rest
                  /\ del_attempts' = Append(del_attempts, Head(rest))
                  /\ UNCHANGED <<m_pc, m_procs, m_pat, m_rule_name,
                                 m_program_path, m_threat, current_time,
                                 m_it_used, m_it_pos, wake_at, sleep_secs,
                                 recorded_enabled>>
    /\ UNCHANGED <<rpcvars, now, security_alerts, auto_response_enabled,
                   rule_timeout_seconds, hvars>>

\* ------------------------------------------------------------------ claims
Entries(d) == { d[i] : i \in 1..Len(d) }

\* the step in which a firewall command returned
AddReturned == last_cmd'.op = "add"
AddSucceeded == last_cmd'.op = "add" /\ last_cmd'.rc = "ok"
AddFailed == last_cmd'.op = "add" /\ last_cmd'.rc # "ok"
\* the step in which an entry was stored in the ledger
Inserted == last_cmd'.inserted

\* C2 (as claimed): manual and automatic creation insert an entry into the
\* ledger if and only if the create command returned exit code 0; when the
\* command fails (non-zero exit code or exception) the ledger is unchanged
\* and the manual caller receives success = false with an error, never
\* success = true.
C2_InsertedIffCreateSucceeded ==
    [][ /\ \A e \in Entries(active_firewall_rules') \ Entries(active_firewall_rules) :
              AddSucceeded /\ last_cmd'.name = e.name
        /\ AddSucceeded =>
              /\ Inserted
              /\ Has(active_firewall_rules', last_cmd'.name)
              /\ last_cmd'.by = "manual" =>
                    resp'.success = "true" /\ resp'.rule_name = last_cmd'.name
        /\ AddFailed =>
              /\ active_firewall_rules' = active_firewall_rules
              /\ last_cmd'.by = "manual" =>
                    /\ resp'.kind = "create"
                    /\ resp'.success = "false"
                    /\ resp'.error
      ]_vars

\* C6 (as claimed): every entry of the ledger has expires_at > created_at.
C6_ExpiresAfterCreated ==
    \A e \in Entries(active_firewall_rules) : e.expires_at > e.created_at

\* the TTL requested by the creation that returns in this step
RequestedTTL ==
    IF last_cmd'.by = "manual" THEN Secs(h_duration.value * SecondsPerMinute)
    ELSE Secs(rule_timeout_seconds)

\* C7 (as claimed): immediately after a rule is inserted, expires_at -
\* created_at equals the requested TTL.
C7_LifetimeEqualsTTL ==
    [][ Inserted =>
          LET e == Get(active_firewall_rules', last_cmd'.name)
          IN e.expires_at - e.created_at = RequestedTTL
      ]_vars

\* C7 (amended): immediately after a rule is inserted, expires_at -
\* created_at is the requested TTL corrected by the advance of the clock
\* between the two reads of time.time(): TTL minus the advance for a manual
\* rule, TTL plus the advance for an auto-response rule.
C7_LifetimeEqualsTTLUpToSkew ==
    [][ Inserted =>
          LET e == Get(active_firewall_rules', last_cmd'.name)
          IN e.expires_at - e.created_at =
                IF last_cmd'.by = "manual"
                THEN RequestedTTL - (now' - now)
                ELSE RequestedTTL + (now' - now)
      ]_vars

\* a manual one-minute rule was just inserted and the clock advanced between
\* the two reads
C7_Witness ==
    /\ last_cmd.op = "add" /\ last_cmd.rc = "ok" /\ last_cmd.by = "manual"
    /\ Has(active_firewall_rules, last_cmd.name)
    /\ LET e == Get(active_firewall_rules, last_cmd.name)
       IN e.expires_at - e.created_at = Minute - 1

\* C8 (as claimed): a rule name requested by _automated_response is the name
\* of no rule that _automated_response created before.
C8_AutoNamesDistinct ==
    [][ (m_pc = "handle" /\ m_pc' = "auto_cmd") =>
          \A e \in Entries(active_firewall_rules) :
              e.threat_info # NoAlert => e.name # m_rule_name'
      ]_vars

\* C9 (as claimed): a successful create_firewall_rule_tool adds one entry
\* to the ledger and replaces none.
C9_CreateAddsOneEntry ==
    [][ (Inserted /\ last_cmd'.by = "manual") =>
          /\ ~Has(active_firewall_rules, last_cmd'.name)
          /\ Len(active_firewall_rules') = Len(active_firewall_rules) + 1
      ]_vars

\* number of occurrences of x in the sequence q
Count(x, q) == Cardinality({ i \in 1..Len(q) : q[i] = x })

DeleteSucceeded == last_cmd'.op = "delete" /\ last_cmd'.rc = "ok"
DeleteFailed == last_cmd'.op = "delete" /\ last_cmd'.rc # "ok"

\* the step in which _cleanup_expired_firewall_rules returns or raises
SweepEnds == m_pc # "sleep" /\ m_pc' = "sleep"

\* the rule names get_active_firewall_rules_tool returned
Listed(r) == { r.rules[i].rule_name : i \in 1..Len(r.rules) }

\* C1 (as claimed): a rule inserted into the ledger stays in the ledger and
\* in the listing while now < expires_at, and is absent from the ledger once
\* a sweep that read a time >= expires_at got exit code 0 from its delete
\* command.
C1_ListedUntilExpiredThenSwept ==
    [][ /\ \A e \in Entries(active_firewall_rules) :
              now' < e.expires_at => Has(active_firewall_rules', e.name)
        /\ (resp'.kind = "list" /\ ~resp'.error) =>
              \A e \in Entries(active_firewall_rules') :
                  now' < e.expires_at => e.name \in Listed(resp')
        /\ DeleteSucceeded => ~Has(active_firewall_rules', last_cmd'.name)
      ]_vars

\* C3 (as claimed): a failed delete command leaves the ledger unchanged, and
\* every sweep that ends while a rule's last delete command has failed has
\* issued exactly one delete command for that rule.
C3_FailedDeleteRetriedEverySweep ==
    [][ /\ DeleteFailed => active_firewall_rules' = active_firewall_rules
        /\ SweepEnds =>
              \A n \in failed_dels' : Count(n, del_attempts) = 1
      ]_vars

\* C5 (as claimed): an entry leaves the ledger only in a step of the sweep
\* whose delete command for its name returned exit code 0, and only if its
\* expires_at is <= the time the sweep read; the sweep leaves every entry
\* with a greater expires_at in place and unchanged.
C5_OnlySweepDeletesExpired ==
    [][ /\ \A e \in Entries(active_firewall_rules) :
              ~Has(active_firewall_rules', e.name) =>
                  /\ DeleteSucceeded
                  /\ last_cmd'.name = e.name
                  /\ e.expires_at <= current_time
        /\ last_cmd'.by = "sweep" =>
              \A e \in Entries(active_firewall_rules) :
                  e.expires_at > current_time =>
                      e \in Entries(active_firewall_rules')
      ]_vars

\* C10 (as claimed): get_active_firewall_rules_tool returns one entry per
\* key of the ledger and active_rules_count equal to the size of the ledger.
C10_ListingIsLedger ==
    resp.kind = "list" =>
        /\ ~resp.error
        /\ resp.count = Len(active_firewall_rules)
        /\ Len(resp.rules) = Len(active_firewall_rules)
        /\ \A i \in 1..Len(resp.rules) :
              resp.rules[i].rule_name = active_firewall_rules[i].name

Next ==
    \/ Tick
    \/ \E p \in Paths, a \in Actions, d \in Durations,
          c \in CustomNames \cup {NoName} : CreateBegin(p, a, d, c)
    \/ \E rc \in Outcomes, skew \in 0..MaxSkew : CreateEnd(rc, skew)
    \/ \E he \in BOOLEAN, e \in BOOLEAN, ht \in BOOLEAN, t \in Timeouts :
          ManageAutoResponse(he, e, ht, t)
    \/ ListBegin
    \/ ListStep
    \/ \E ps \in ProcSamples : CycleStart(ps)
    \/ SampleFails
    \/ Detect
    \/ \E hp \in BOOLEAN : Respond(hp)
    \/ \E rc \in Outcomes, skew \in 0..MaxSkew : AutoCmdEnd(rc, skew)
    \/ SweepBegin
    \/ SweepScan
    \/ \E rc \in Outcomes : SweepDelEnd(rc)

Spec == Init /\ [][Next]_vars

\* ---------------------------------------------------------------- liveness
\* The monitor thread takes a step.
MonitorStep ==
    \/ \E ps \in ProcSamples : CycleStart(ps) \/ HorizonCycleStart(ps)
    \/ Detect
    \/ \E hp \in BOOLEAN : Respond(hp)
    \/ \E rc \in Outcomes, skew \in 0..MaxSkew : AutoCmdEnd(rc, skew)
    \/ SweepBegin
    \/ SweepScan
    \/ \E rc \in Outcomes : SweepDelEnd(rc)

\* the delete command for rule n returns exit code 0
DeleteOk(n) ==
    /\ m_pc = "del_cmd"
    /\ Head(expired_rules) = n
    /\ SweepDelEnd("ok")

\* the clock values and the rule names of the model
ClockValues ==
    { m * Minute + k : m \in 0..(MaxSeconds \div SecondsPerMinute),
                       k \in 0..MaxSubTicks }
AllNames ==
    CustomNames
    \cup { TempName(a, IntTime(t)) : a \in Actions, t \in ClockValues }
    \cup { BlockName(p.pid, t) :
             p \in { q \in ProcPool : MatchTable[q] # {} },
             t \in ClockValues }

\* The calls and process samples of the fair specification: rules created
\* by hand under a caller's name with a numeric duration, the rule timeout set
\* to zero minutes so that automatic rules expire within the horizon, and a
\* process that matches two patterns.
LiveSamples == { <<>>, <<ProcWmic>> }

LiveNext ==
    \/ Tick
    \/ \E p \in Paths, a \in Actions, d \in NumericDurations,
          cn \in CustomNames : CreateBegin(p, a, d, cn)
    \/ \E rc \in Outcomes : CreateEnd(rc, 0)
    \/ ManageAutoResponse(FALSE, FALSE, TRUE, 0)
    \/ \E ps \in LiveSamples : CycleStart(ps) \/ HorizonCycleStart(ps)
    \/ Detect
    \/ \E hp \in BOOLEAN : Respond(hp)
    \/ \E rc \in Outcomes : AutoCmdEnd(rc, 0)
    \/ SweepBegin
    \/ SweepScan
    \/ \E rc \in Outcomes : SweepDelEnd(rc)

\* Time passes, the monitor thread runs, its commands return, and the
\* delete command of a rule that is tried again and again succeeds.
LiveSpec ==
    /\ Init
    /\ [][LiveNext]_vars
    /\ WF_vars(Tick)
    /\ WF_vars(MonitorStep)
    /\ \A n \in AllNames : SF_vars(DeleteOk(n))

\* rule n is tracked and its expires_at has passed
Overdue(n) ==
    /\ Has(active_firewall_rules, n)
    /\ Get(active_firewall_rules, n).expires_at <= now

SweepNames == CustomNames \cup {TempName("block", 0)}
SweepExpiries == {0, 1, Minute}
SweepClocks == {0, 1}

SweepEntry(n, x) ==
    [name |-> n, created_at |-> 0, expires_at |-> x,
     program_path |-> "/bin/x", action |-> "block", threat_info |-> NoAlert]

\* the ledgers of at most two rules with distinct names
SweepLedgers ==
    {<<>>}
    \cup { <<SweepEntry(n, x)>> : n \in SweepNames, x \in SweepExpiries }
    \cup { d \in { <<SweepEntry(n1, x1), SweepEntry(n2, x2)>> :
                      n1 \in SweepNames, n2 \in SweepNames,
                      x1 \in SweepExpiries, x2 \in SweepExpiries } :
             d[1].name # d[2].name }

SweepInit ==
    /\ now \in SweepClocks
    /\ active_firewall_rules \in SweepLedgers
    /\ security_alerts = <<>>
    /\ auto_response_enabled = TRUE
    /\ rule_timeout_seconds = DefaultRuleTimeout
    /\ fw = SweepNames
    /\ h_pc = "idle"
    /\ h_rule_name = NoName
    /\ h_program_path = ""
    /\ h_action = ""
    /\ h_duration = Number(0)
    /\ h_time = 0
    /\ h_it_used = 0
    /\ h_it_pos = 0
    /\ h_rows = <<>>
    /\ resp = NoResp
    /\ calls = 0
    /\ m_pc = "threats"
    /\ m_procs = <<>>
    /\ m_pat = 1
    /\ m_rule_name = NoName
    /\ m_program_path = ""
    /\ m_threat = NoAlert
    /\ current_time = 0
    /\ expired_rules = <<>>
    /\ m_it_used = 0
    /\ m_it_pos = 0
    /\ wake_at = 0
    /\ sleep_secs = 0
    /\ last_cmd = NoCmd
    /\ del_attempts = <<>>
    /\ recorded_enabled = TRUE
    /\ failed_dels = {}
    /\ rpc_request = NoRequest
    /\ rpc_response = NoResponse

\* the sweep is called again as soon as it has returned; wake_at keeps the
\* value the end of the previous run gave it, which is not 0
SweepAgain ==
    /\ m_pc = "sleep"
    /\ sleep_secs = SleepNormal
    /\ m_pc' = "threats"
    /\ resp' = NoResp
    /\ last_cmd' = NoCmd
    /\ UNCHANGED <<rpcvars, failed_dels, now, shared, hvars, m_procs, m_pat,
                   m_rule_name, m_program_path, m_threat, current_time,
                   expired_rules, m_it_used, m_it_pos, wake_at, sleep_secs,
                   del_attempts, recorded_enabled>>

SweepNext ==
    \/ SweepBegin
    \/ SweepScan
    \/ \E rc \in Outcomes : SweepDelEnd(rc)
    \/ SweepAgain

SweepSpec == SweepInit /\ [][SweepNext]_vars

\* a run of the sweep that follows another one
LaterRun == wake_at # 0 /\ m_pc # "sleep"

\* C11: when the sweep runs again with the same clock value, nothing having
\* been created in between and no delete command having failed, the second
\* run issues no delete command and leaves the ledger unchanged.
C11_SecondSweepIsNoOp ==
    [][ (LaterRun /\ failed_dels = {}) =>
            /\ m_pc' # "del_cmd"
            /\ last_cmd'.op # "delete"
            /\ active_firewall_rules' = active_firewall_rules
      ]_vars

\* the second run scans a ledger from which the first run deleted a rule
\* and in which it left one
C11_Witness ==
    /\ LaterRun
    /\ m_pc = "scan"
    /\ failed_dels = {}
    /\ fw # SweepNames
    /\ active_firewall_rules # <<>>

\* ------------------------------------------------------- automated response
\* the step in which _automated_response issues a create command
AutoCreateIssued == m_pc # "auto_cmd" /\ m_pc' = "auto_cmd"

\* the step in which _handle_threat_detection appends an alert
AlertAppended == Len(security_alerts') = Len(security_alerts) + 1

\* C12 (as claimed): an alert handled while auto_response_enabled is false is
\* appended to the alert log and causes no create command and no ledger
\* insertion; after the flag is set again no rule is created for an alert
\* that was recorded while it was false.
C12_NoRuleForAlertRecordedWhileDisabled ==
    [][ /\ (m_pc = "threats" /\ m_pc' # "threats" /\ m_pc' # "scan"
               /\ m_pc' # "sleep" /\ m_pc' # "del_cmd") => AlertAppended
        /\ AutoCreateIssued => auto_response_enabled /\ recorded_enabled
        /\ (Inserted /\ last_cmd'.by = "auto") => recorded_enabled
      ]_vars

\* the step in which _get_process_path returned None
PathFailed == last_cmd'.op = "exe" /\ last_cmd'.rc = "fail"

\* C13: when auto-response is enabled and _get_process_path returns no path
\* for a suspicious_process alert, the alert is in the alert log, no create
\* command is issued, the ledger and the firewall are unchanged, and the
\* monitor cycle goes on with the next detection.
C13_NoPathNoRule ==
    [][ PathFailed =>
            /\ \E i \in 1..Len(security_alerts') : security_alerts'[i] = m_threat
            /\ m_pc' = "threats"
            /\ active_firewall_rules' = active_firewall_rules
            /\ fw' = fw
      ]_vars

\* _get_process_path has just returned None for the alert logged last
C13_Witness ==
    /\ last_cmd.op = "exe" /\ last_cmd.rc = "fail"
    /\ auto_response_enabled
    /\ security_alerts # <<>>
    /\ security_alerts[Len(security_alerts)].type = "suspicious_process"
    /\ m_pc = "threats"

\* C14: a high_cpu_usage alert leads to no create command and no ledger
\* insertion: every create command of _automated_response is for an alert
\* of type suspicious_process, and so is the threat_info of every entry it
\* stored.
C14_OnlySuspiciousProcessCreatesRules ==
    [][ /\ AutoCreateIssued => m_threat'.type = "suspicious_process"
        /\ (m_pc = "handle" /\ m_threat.type = "high_cpu_usage") =>
              /\ m_pc' \in {"handle", "threats"}
              /\ active_firewall_rules' = active_firewall_rules
                 \/ last_cmd'.by = "manual"
        /\ \A e \in Entries(active_firewall_rules') :
              e.threat_info # NoAlert =>
                  e.threat_info.type = "suspicious_process"
      ]_vars

\* a high_cpu_usage alert has been handled with auto-response enabled
C14_Witness ==
    /\ m_pc = "threats"
    /\ auto_response_enabled
    /\ recorded_enabled
    /\ security_alerts # <<>>
    /\ security_alerts[Len(security_alerts)].type = "high_cpu_usage"

\* ----------------------------------------------- one cycle of threat matching
\* _monitor_threats run on a given sample of processes, with the automated
\* response and the sweep that follow it in the cycle.
MatchSamples ==
    {<<>>}
    \cup { <<p>> : p \in MatchPool }
    \cup { ps \in { <<p, q>> : p \in MatchPool, q \in MatchPool } :
             ps[1] # ps[2] }

\* the state in which _monitor_threats has its sample of processes, with
\* nothing else under way; the alert log and the sample are left open
MidCycle ==
    /\ now = 0
    /\ active_firewall_rules = <<>>
    /\ auto_response_enabled = TRUE
    /\ rule_timeout_seconds = DefaultRuleTimeout
    /\ fw = {}
    /\ h_pc = "idle"
    /\ h_rule_name = NoName
    /\ h_program_path = ""
    /\ h_action = ""
    /\ h_duration = Number(0)
    /\ h_time = 0
    /\ h_it_used = 0
    /\ h_it_pos = 0
    /\ h_rows = <<>>
    /\ resp = NoResp
    /\ calls = 0
    /\ m_pc = "threats"
    /\ m_pat = 1
    /\ m_rule_name = NoName
    /\ m_program_path = ""
    /\ m_threat = NoAlert
    /\ current_time = 0
    /\ expired_rules = <<>>
    /\ m_it_used = 0
    /\ m_it_pos = 0
    /\ wake_at = 0
    /\ sleep_secs = 0
    /\ last_cmd = NoCmd
    /\ del_attempts = <<>>
    /\ recorded_enabled = TRUE
    /\ failed_dels = {}
    /\ rpc_request = NoRequest
    /\ rpc_response = NoResponse

MatchInit ==
    /\ MidCycle
    /\ security_alerts = <<>>
    /\ m_procs \in MatchSamples

MatchNext ==
    \/ Detect
    \/ \E hp \in BOOLEAN : Respond(hp)
    \/ \E rc \in Outcomes : AutoCmdEnd(rc, 0)
    \/ SweepBegin
    \/ SweepScan

MatchSpec == MatchInit /\ [][MatchNext]_vars

\* one character is the other, or the other in the other case
SameLetter(a, b) ==
    \/ a = b
    \/ \E i \in 1..Len(UpperChars) :
          {a, b} = {UpperChars[i], LowerChars[i]}

\* sig occurs in text when the case of the letters is ignored
ContainsIgnoreCase(sig, text) ==
    \E k \in 0..(Len(text) - Len(sig)) :
        \A i \in 1..Len(sig) : SameLetter(text[k + i], sig[i])

\* The checks _monitor_threats makes on a process, in the order it makes
\* them: check k <= NPat is the match of pattern k, check NPat + 1 the test
\* of cpu_percent.  LoopStep is a step that leaves the loops: to handle an
\* alert, or because they are finished.
CpuCheck == NPat + 1
LoopStep == m_pc = "threats" /\ m_pc' # "threats"
AlertStep == m_pc = "threats" /\ m_pc' = "handle"
\* the number of processes the step leaves behind
Dropped == IF AlertStep THEN Len(m_procs) - Len(m_procs') ELSE Len(m_procs)
\* the check that raised the alert of an AlertStep
AlertedProc == m_procs[Dropped + 1]
AlertedCheck == m_pat' - 1
\* the checks the step passed without an alert
PassedChecks ==
    { c \in (1..Len(m_procs)) \X (1..CpuCheck) :
        /\ c[1] > 1 \/ c[2] >= m_pat
        /\ AlertStep =>
              \/ c[1] <= Dropped
              \/ c[1] = Dropped + 1 /\ c[2] < AlertedCheck }
NewAlert == security_alerts'[Len(security_alerts')]

\* C15: in a monitoring cycle a suspicious_process alert is appended for a
\* process and a pattern if and only if the pattern occurs in the command
\* line of the process, the case of letters ignored; its pattern field is
\* the pattern, and each matching pattern gives one alert.
C15_AlertIffPatternInCmdline ==
    [][ LoopStep =>
          /\ \A c \in PassedChecks :
                c[2] <= NPat =>
                    ~ContainsIgnoreCase(suspicious_processes[c[2]],
                                        Join(m_procs[c[1]].cmdline))
          /\ AlertStep =>
                /\ AlertAppended
                /\ Dropped >= 0
                /\ Dropped = 0 => AlertedCheck >= m_pat
                /\ NewAlert.pid = AlertedProc.pid
                /\ (NewAlert.type = "suspicious_process") = (AlertedCheck <= NPat)
                /\ AlertedCheck <= NPat =>
                      /\ NewAlert.pattern = suspicious_processes[AlertedCheck]
                      /\ ContainsIgnoreCase(suspicious_processes[AlertedCheck],
                                            Join(AlertedProc.cmdline))
      ]_vars

\* the cycle is over and the log holds the alert of "PowerShell.exe -enc AAA"
\* for the pattern 'powershell.exe -enc' and both alerts of process 13
C15_Witness ==
    /\ m_pc = "sleep"
    /\ Len(security_alerts) = 4
    /\ security_alerts[1].pattern = suspicious_processes[1]
    /\ security_alerts[2].pattern = suspicious_processes[4]
    /\ security_alerts[3].pattern = suspicious_processes[6]
    /\ security_alerts[4].type = "high_cpu_usage"

\* the alerts of the log after the step that are of a kind, for a process
AlertsOf(kind, pid) ==
    { j \in 1..Len(security_alerts') :
        /\ security_alerts'[j].type = kind
        /\ security_alerts'[j].pid = pid }

\* the cpu half of C16: the test of cpu_percent raises an alert exactly when
\* cpu_percent is above high_cpu_threshold
CpuAlertIffAboveThreshold ==
    LoopStep =>
        /\ \A c \in PassedChecks :
              c[2] = CpuCheck =>
                  ~(m_procs[c[1]].cpu_percent > high_cpu_threshold)
        /\ AlertStep /\ AlertedCheck = CpuCheck =>
              /\ NewAlert.type = "high_cpu_usage"
              /\ NewAlert.pid = AlertedProc.pid
              /\ AlertedProc.cpu_percent > high_cpu_threshold

\* the memory half of C16: once the loops are done with a process whose
\* memory_percent is above high_memory_threshold, the log holds a memory
\* alert for it
MemoryAlertWhenAboveThreshold ==
    LoopStep =>
        \A i \in 1..Dropped :
            m_procs[i].memory_percent > high_memory_threshold =>
                AlertsOf("high_memory_usage", m_procs[i].pid) # {}

\* C16: for every sampled process a resource alert is produced in a cycle
\* if and only if the metric is strictly above its threshold, for
\* cpu_percent and for memory_percent; a metric equal to its threshold
\* gives no alert.
C16_ResourceAlertIffAboveThreshold ==
    [][CpuAlertIffAboveThreshold /\ MemoryAlertWhenAboveThreshold]_vars

\* ------------------------------------------------- the alert log and its query
\* A monitoring cycle appends to a log that already holds alerts of earlier
\* cycles, while get_security_alerts and manage_auto_response are called.
MaxLog == 3
MaxLimit == 2
Limits == 0..MaxLimit
AlertKinds == {"suspicious_process", "high_cpu_usage"}
\* alert_type arguments: none, the kinds, and a kind no alert has
AlertTypes == {NoType, "network"} \cup AlertKinds
EarlierAlerts == { SuspiciousAlert(ProcWmic, NPat), HighCpuAlert(ProcBusy) }
AlertLogs == UNION { [1..n -> EarlierAlerts] : n \in 0..MaxLog }
AlertSamples == {<<>>} \cup { <<p>> : p \in MatchPool }

AlertInit ==
    /\ MidCycle
    /\ security_alerts \in AlertLogs
    /\ m_procs \in AlertSamples

AlertNext ==
    \/ Detect
    \/ \E hp \in BOOLEAN : Respond(hp)
    \/ \E rc \in Outcomes : AutoCmdEnd(rc, 0)
    \/ SweepBegin
    \/ SweepScan
    \/ \E limit \in Limits, alert_type \in AlertTypes :
          GetSecurityAlerts(limit, alert_type)
    \/ \E enabled \in BOOLEAN : ManageAutoResponse(TRUE, enabled, FALSE, 0)

AlertSpec == AlertInit /\ [][AlertNext]_vars

\* C17: the alert log is append-only: in every step of the monitor and of
\* the handlers the log before the step is a prefix of the log after it.
C17_AlertLogAppendOnly ==
    [][ /\ Len(security_alerts') >= Len(security_alerts)
        /\ SubSeq(security_alerts', 1, Len(security_alerts)) = security_alerts
      ]_vars

\* the log of the initial state was full, the cycle has appended three
\* alerts to it, and get_security_alerts has just returned
C17_Witness ==
    /\ Len(security_alerts) = MaxLog + 3
    /\ resp.kind = "alerts"
    /\ resp.total_alerts = MaxLog + 3

\* the n most recent entries of s, the most recent first
MostRecentFirst(s, n) ==
    [i \in 1..Min(n, Len(s)) |-> s[Len(s) + 1 - i]]
\* the n most recent entries of s, in the order of s
MostRecent(s, n) == SubSeq(s, Len(s) - Min(n, Len(s)) + 1, Len(s))

\* C18: without a kind filter and for every limit >= 0,
\* get_security_alerts returns at most limit alerts: the most recently
\* appended ones, the most recent first.
C18_QueryReturnsMostRecentFirst ==
    [][ \A limit \in Limits :
          GetSecurityAlerts(limit, NoType) =>
              /\ Len(resp'.alerts) <= limit
              /\ resp'.alerts = MostRecentFirst(security_alerts, limit)
      ]_vars

\* C19: with alert_type = k and limit n, get_security_alerts returns only
\* alerts of kind k, min(n, number of alerts of kind k in the log) of them,
\* and they are the most recent alerts of that kind, whatever was appended
\* after them.
C19_FilteredQueryReturnsMostRecentOfKind ==
    [][ \A limit \in Limits, k \in AlertTypes \ {NoType} :
          GetSecurityAlerts(limit, k) =>
              LET ofk == OfType(security_alerts, k)
              IN /\ \A i \in 1..Len(resp'.alerts) : resp'.alerts[i].type = k
                 /\ Len(resp'.alerts) = Min(limit, Len(ofk))
                 /\ resp'.alerts \in { MostRecent(ofk, limit),
                                       MostRecentFirst(ofk, limit) }
      ]_vars

\* ----------------------------------------------------- failures in a cycle
\* the step in which the sampling of _monitor_threats raises
SamplingRaised == last_cmd'.op = "sample" /\ last_cmd'.rc = "exc"
\* the step in which the scan of the sweep finds the dict changed in size:
\* RuntimeError leaves _cleanup_expired_firewall_rules
ScanRaised ==
    /\ m_pc = "scan"
    /\ m_pc' # m_pc
    /\ Len(active_firewall_rules) # m_it_used
\* the cycle is given up and monitor_loop waits the longer interval
CycleAborted == m_pc' = "sleep" /\ sleep_secs' = SleepOnError

\* C21: an unexpected failure in a step of a cycle (sampling and matching,
\* automated response, sweep) aborts the cycle at that step, and the wait
\* before the next cycle is 60 seconds instead of 30.
C21_FailureAbortsCycleWithBackoff ==
    [][SamplingRaised \/ ScanRaised => CycleAborted]_vars

\* ------------------------------------------------ commands that do not return
\* The steps of the monitor thread that do not wait for an external command.
OwnStep ==
    \/ \E ps \in LiveSamples : CycleStart(ps) \/ HorizonCycleStart(ps)
    \/ Detect
    \/ \E hp \in BOOLEAN : Respond(hp)
    \/ SweepBegin
    \/ SweepScan

\* Time passes and the monitor thread runs, but nothing is assumed of the
\* external command: subprocess.run(cmd, capture_output=True, text=True,
\* shell=True) has no timeout argument and returns when the command does.
HangSpec ==
    /\ Init
    /\ [][LiveNext]_vars
    /\ WF_vars(Tick)
    /\ WF_vars(OwnStep)

\* a command of the monitor thread, of a handler, is under way
MonitorInCommand == m_pc \in {"auto_cmd", "del_cmd"}
HandlerInCommand == h_pc = "create_cmd"

\* C22: every create and every remove invocation of the firewall command
\* ends with a result, also when the command never responds (it is then
\* reported as failed after the timeout): neither the monitoring cycle nor
\* a request handler waits in a command for ever.
C22_CommandInvocationsTerminate ==
    /\ []<>~MonitorInCommand
    /\ []<>~HandlerInCommand

\* ------------------------------------------------------- mutual exclusion
\* The monitor thread is inside an operation on the ledger: the scan of the
\* sweep, or its loop of deletions; a handler is inside its iteration over
\* the ledger.
MonitorInLedgerOp == m_pc \in {"scan", "del_cmd"}
HandlerInLedgerOp == h_pc = "list_iter"
\* a step of the other thread: the thread's own variables do not change

\* C23: the operations of the monitor thread and of the handlers on the
\* ledger and the alert log exclude each other: while one of them is inside
\* its scan or update of a structure, no step of the other thread changes
\* that structure, so that each listing is made of one snapshot.  The
\* operations on the alert log (an append, a slice) are single steps; the
\* ones that take several steps are on the ledger.
C23_LedgerOperationsExclusive ==
    [][ /\ MonitorInLedgerOp /\ UNCHANGED mvars =>
              UNCHANGED active_firewall_rules
        /\ HandlerInLedgerOp /\ UNCHANGED hvars =>
              UNCHANGED active_firewall_rules
      ]_vars

\* ------------------------------------------------------ one cycle at a time
\* The part of the cycle the monitor thread is in: 1 _monitor_threats with
\* the handling of its alerts, 2 the scan of the sweep, 3 its deletions;
\* 0 between cycles.
Phase(pc) ==
    CASE pc \in {"threats", "handle", "auto_cmd"} -> 1
      [] pc = "scan" -> 2
      [] pc = "del_cmd" -> 3
      [] OTHER -> 0
IsSuffix(a, b) == \E k \in 0..Len(b) : a = SubSeq(b, k + 1, Len(b))

\* C24: two cycles never run at the same time.  A cycle starts only when
\* the loop is idle and its sleep has ended, and while a cycle is in
\* progress nothing starts another one: the cycle only moves forward
\* through its parts and works on what is left of its one sample.
C24_CyclesNeverOverlap ==
    [][ /\ Phase(m_pc) = 0 /\ Phase(m_pc') > 0 =>
              \/ m_pc = "idle"
              \/ m_pc = "sleep" /\ (now >= wake_at \/ AtHorizon)
        /\ Phase(m_pc) > 0 /\ Phase(m_pc') > 0 =>
              /\ Phase(m_pc') >= Phase(m_pc)
              /\ Phase(m_pc') = 1 => IsSuffix(m_procs', m_procs)
      ]_vars

\* a later cycle is at its deletions: a delete command of an earlier sweep
\* has failed, and the clock is past the interval of the loop
C24_Witness ==
    /\ m_pc = "del_cmd"
    /\ failed_dels # {}
    /\ now >= Secs(SleepNormal)

\* ------------------------------------------------------- request surface
\* A payload is an error payload when it carries an error field.  The error
\* payload of create_firewall_rule is to carry success = false as well, its
\* success payload success = true.
WellFormed(r) ==
    IF r.error
    THEN r.kind = "create" => r.success = "false"
    ELSE r.kind = "create" => r.success = "true"

\* C25: every operation of the request surface returns, for every argument
\* value and every internal failure, a success payload or an error payload
\* with an error field (create_firewall_rule: success = false together with
\* error); none raises.
C25_PayloadsWellFormed ==
    resp.kind # "none" => WellFormed(resp)

\* ------------------------------------------------- manage_auto_response alone
\* manage_auto_response called on given settings, ledger and alert log while
\* nothing else runs: both threads are idle.
Quiet ==
    /\ now = 0
    /\ h_pc = "idle"
    /\ h_rule_name = NoName
    /\ h_program_path = ""
    /\ h_action = ""
    /\ h_duration = Number(0)
    /\ h_time = 0
    /\ h_it_used = 0
    /\ h_it_pos = 0
    /\ h_rows = <<>>
    /\ resp = NoResp
    /\ calls = 0
    /\ m_pc = "idle"
    /\ m_procs = <<>>
    /\ m_pat = 1
    /\ m_rule_name = NoName
    /\ m_program_path = ""
    /\ m_threat = NoAlert
    /\ current_time = 0
    /\ expired_rules = <<>>
    /\ m_it_used = 0
    /\ m_it_pos = 0
    /\ wake_at = 0
    /\ sleep_secs = 0
    /\ last_cmd = NoCmd
    /\ del_attempts = <<>>
    /\ recorded_enabled = TRUE
    /\ failed_dels = {}
    /\ rpc_request = NoRequest
    /\ rpc_response = NoResponse

ManageSettings == {0, SecondsPerMinute, DefaultRuleTimeout}
\* timeout_minutes arguments num / den: 0, 1/2, 1, 3/2, 2, 3
TimeoutNums == 0..3
TimeoutDens == {1, 2}

ManageInit ==
    /\ Quiet
    /\ active_firewall_rules \in SweepLedgers
    /\ fw = Names(active_firewall_rules)
    /\ security_alerts \in AlertLogs
    /\ auto_response_enabled \in BOOLEAN
    /\ rule_timeout_seconds \in ManageSettings

ManageNext ==
    \E he \in BOOLEAN, e \in BOOLEAN, ht \in BOOLEAN,
       num \in TimeoutNums, den \in TimeoutDens :
        ManageAutoResponseOf(he, e, ht, num, den)

ManageSpec == ManageInit /\ [][ManageNext]_vars

\* C26: manage_auto_response changes only the settings it is given: without
\* enabled the flag is unchanged, without timeout_minutes the timeout is
\* unchanged, the values returned are the settings after the call (the
\* minutes returned are the minutes given), and the ledger and the alert
\* log are unchanged.
C26_ManageChangesOnlyGivenSettings ==
    [][ \A he \in BOOLEAN, e \in BOOLEAN, ht \in BOOLEAN,
           num \in TimeoutNums, den \in TimeoutDens :
          ManageAutoResponseOf(he, e, ht, num, den) =>
              /\ ~he => auto_response_enabled' = auto_response_enabled
              /\ ~ht => rule_timeout_seconds' = rule_timeout_seconds
              /\ resp'.enabled = auto_response_enabled'
              /\ resp'.timeout_minutes * SecondsPerMinute
                    = rule_timeout_seconds'
              /\ ht => resp'.timeout_minutes * den = num
              /\ UNCHANGED <<active_firewall_rules, security_alerts>>
      ]_vars

\* ---------------------------------------------------------- json-rpc-demo
\* JSON values: null (which is also what data.get gives for a missing
\* field), strings, objects with at most the field message, arrays.
Null == [t |-> "null"]
Str(v) == [t |-> "string", v |-> v]
Obj(message) == [t |-> "object", message |-> message]
Arr(items) == [t |-> "array", items |-> items]

Messages == {Str("hi"), Str("yo")}
RpcVersions == {Null, Str("2.0"), Str("1.0")}
RpcMethods == {Null, Str("echo"), Str("add")}
RpcParams ==
    {Null, Str("hi"), Arr(<<>>), Obj(Null)}
    \cup { Obj(msg) : msg \in Messages }
    \cup { Arr(<<msg>>) : msg \in Messages }
    \cup { Arr(<<Str("hi"), Str("yo")>>) }
RpcIds == {Null, Str("a"), Str("b")}

\* The bodies posted to /rpc: a JSON object with the fields jsonrpc, method,
\* params and id, a JSON value that is not an object (a batch array), and a
\* body that is not JSON.
RpcObjects ==
    [kind : {"object"}, jsonrpc : RpcVersions, method : RpcMethods,
     params : RpcParams, id : RpcIds]
Requests == RpcObjects \cup { [kind |-> "array"], [kind |-> "invalid"] }

\* the responses jsonrpc_endpoint returns
RpcError(status, code, id) ==
    [status |-> status, error |-> code, result |-> Null, id |-> id]
RpcResult(result, id) ==
    [status |-> 200, error |-> 0, result |-> result, id |-> id]
\* An exception leaves the endpoint: await request.json() raises on a body
\* that is not JSON, data.get raises AttributeError on a body that is not
\* an object.  The framework answers 500.
RpcRaised == [status |-> 500, error |-> 0, result |-> Null, id |-> Null]

InvalidRequest == -32600
MethodNotFound == -32601

\* data.get("jsonrpc") != "2.0" is false
IsVersion2(data) == data.jsonrpc = Str("2.0")

\* message, as the echo branch computes it from params
EchoMessage(params) ==
    IF params.t = "object" THEN params.message
    ELSE IF params.t = "array" /\ Len(params.items) > 0
    THEN params.items[1]
    ELSE Null

jsonrpc_endpoint(body) ==
    IF body.kind # "object" THEN RpcRaised
    ELSE IF ~IsVersion2(body)
    THEN RpcError(400, InvalidRequest, body.id)
    ELSE IF body.method = Str("echo")
    THEN RpcResult(EchoMessage(body.params), body.id)
    ELSE RpcError(200, MethodNotFound, body.id)

\* a body is posted; the endpoint answers it

RpcReceive(body) ==
    /\ rpc_response # NoResponse \/ rpc_request = NoRequest
    /\ rpc_request' = body
    /\ rpc_response' = NoResponse
    /\ UNCHANGED <<now, shared, hvars, mvars, last_cmd, resp, failed_dels>>

RpcAnswer ==
    /\ rpc_request # NoRequest
    /\ rpc_response = NoResponse
    /\ rpc_response' = jsonrpc_endpoint(rpc_request)
    /\ UNCHANGED <<rpc_request, now, shared, hvars, mvars, last_cmd, resp,
                   failed_dels>>

RpcNext ==
    \/ \E body \in Requests : RpcReceive(body)
    \/ RpcAnswer

RpcSpec == Init /\ [][RpcNext]_vars

\* the fields of a body, null when it has none
FieldOf(body, jsonrpc_or_id) ==
    IF body.kind # "object" THEN Null
    ELSE IF jsonrpc_or_id = "jsonrpc" THEN body.jsonrpc ELSE body.id

\* C27: for every request to POST /rpc: if the jsonrpc field is not "2.0"
\* the response is HTTP 400 with error code -32600, whatever the method;
\* otherwise, for the method "echo" it is HTTP 200 with result
\* params.message for object params and params[0] for a non-empty array;
\* otherwise HTTP 200 with error code -32601; and in every case the id of the
\* response is the id of the request.
C27_RpcResponses ==
    rpc_response # NoResponse =>
        /\ rpc_response.id = FieldOf(rpc_request, "id")
        /\ IF FieldOf(rpc_request, "jsonrpc") # Str("2.0")
           THEN /\ rpc_response.status = 400
                /\ rpc_response.error = InvalidRequest
           ELSE IF rpc_request.method = Str("echo")
           THEN /\ rpc_response.status = 200
                /\ rpc_response.error = 0
                /\ rpc_request.params.t = "object" =>
                      rpc_response.result = rpc_request.params.message
                /\ (rpc_request.params.t = "array"
                      /\ rpc_request.params.items # <<>>) =>
                      rpc_response.result = rpc_request.params.items[1]
           ELSE /\ rpc_response.status = 200
                /\ rpc_response.error = MethodNotFound

\* ------------------------------------------------- order of steps in a cycle
\* the check c of PassedChecks would raise an alert
Raises(c) ==
    IF c[2] <= NPat
    THEN ContainsIgnoreCase(suspicious_processes[c[2]],
                            Join(m_procs[c[1]].cmdline))
    ELSE m_procs[c[1]].cpu_percent > high_cpu_threshold
\* the step in which _handle_threat_detection reads auto_response_enabled
PolicyConsulted == m_pc = "handle" /\ m_pc' # "handle"
\* the step in which _cleanup_expired_firewall_rules is entered
SweepStarts == Phase(m_pc) = 1 /\ Phase(m_pc') # 1

\* C28: the steps of a cycle run in order.  When the automated response is
\* consulted for an alert, the alert is already the last entry of the alert
\* log; and the sweep of a cycle starts only when the loops over the sample
\* are done: no alert is being handled, no command of the automated
\* response is under way, and no check that is left raises an alert.
C28_CycleStepsInOrder ==
    [][ /\ PolicyConsulted =>
              /\ security_alerts # <<>>
              /\ security_alerts[Len(security_alerts)] = m_threat
        /\ SweepStarts =>
              /\ m_pc = "threats"
              /\ m_threat = NoAlert
              /\ \A c \in PassedChecks : ~Raises(c)
      ]_vars

\* the sweep scans the ledger after a cycle that appended an alert and
\* inserted the rule of its automated response
C28_Witness ==
    /\ m_pc = "scan"
    /\ security_alerts # <<>>
    /\ \E i \in 1..Len(active_firewall_rules) :
          active_firewall_rules[i].threat_info
              = security_alerts[Len(security_alerts)]

\* ------------------------------------------------------------ orphan rules
\* the rules in the firewall that the ledger does not track

\* C29: no orphan rules.  Every rule name whose create command returned
\* exit code 0 and for which no delete command has succeeded since is a key
\* of the ledger, also when an error occurs between the create command and
\* the insertion into the ledger.
C29_NoOrphanRules == \A n \in fw : Has(active_firewall_rules, n)

\* ------------------------------------------------ removals within one sweep
\* C30 (as claimed): the scan puts every rule it finds expired on the list;
\* the sweep ends only when every rule of the list has had its delete
\* command, each exactly one; a delete command that fails or raises leaves
\* the ledger unchanged and is followed by the rest of the list, and one
\* that succeeds removes no entry but its own.
C30_RemovalsIndependent ==
    [][ /\ m_it_pos' = m_it_pos + 1 =>
              LET rule_info == active_firewall_rules[m_it_pos']
              IN expired_rules' =
                    IF current_time' >= rule_info.expires_at
                    THEN Append(expired_rules, rule_info.name)
                    ELSE expired_rules
        /\ (m_pc # "del_cmd" /\ m_pc' = "del_cmd") =>
              /\ del_attempts' \o Tail(expired_rules') = expired_rules
              /\ \A n \in Names(active_firewall_rules) :
                    Count(n, del_attempts' \o Tail(expired_rules')) <= 1
        /\ (m_pc = "del_cmd" /\ m_pc' = "del_cmd") =>
              del_attempts' \o Tail(expired_rules')
                  = del_attempts \o Tail(expired_rules)
        /\ SweepEnds =>
              \A i \in 1..Len(expired_rules) :
                  /\ Count(expired_rules[i], del_attempts) = 1
                  /\ i = 1
        /\ last_cmd'.by = "sweep" =>
              \A e \in Entries(active_firewall_rules) :
                  (DeleteFailed \/ e.name # last_cmd'.name) =>
                      e \in Entries(active_firewall_rules')
      ]_vars
====
